---- MODULE Spec2Model ----
(***************************************************************************)
(* Model of the TextOnGif class (src/src/textOnGif.ts, types in            *)
(* src/unnamed/part_000).                                                  *)
(*                                                                         *)
(* A string is a sequence of one-character strings, so that split, join    *)
(* and measureText are computed as the JavaScript code computes them.      *)
(* Canvas coordinates are held in half pixels (a stored 7 is 3.5px), which *)
(* keeps the two divisions by 2 of #renderGIF exact.                       *)
(* Calls on one instance are serialised: a call starts when none is in     *)
(* flight.                                                                 *)
(***************************************************************************)
EXTENDS Integers, Sequences, FiniteSets, TLC

\* ------------------------------------------------------------------ bounds
MaxFrames == 2       \* frames in the source gif
MaxCalls == 3        \* API calls on the instance in one behaviour
MaxFaults == 1       \* injected failures (decode, frame extraction, paint)
MaxLen == 4          \* characters of a text given to the wrap
MaxWidth == 4        \* canvas widths 0..MaxWidth given to the wrap
MaxLayoutRuns == 2   \* direct createTextRows calls in SpecWrap
SourceWidth == 2     \* width of the source gif in the pipeline
SourceHeight == 6    \* height of the source gif in the pipeline
MaxPosition == 1     \* explicit positions 0..MaxPosition given to the anchor
MaxOffset == 1       \* offsets 0..MaxOffset given to the anchor
MaxRowGap == 1       \* row gaps 0..MaxRowGap given to the anchor
MaxRequests == 2     \* getWidth, getHeight and noOfFrames calls in SpecGetters

Delays == {1, 2}         \* decoder delays (hundredths of a second)
Disposals == {1, 2}      \* DoNotDispose, RestoreToBackground
WrapAlphabet == {"a", "W", " "}

\* ----------------------------------------------------------------- strings
Space == " "

\* canvas measureText(s).width: the glyph advances added up
GlyphWidth(c) == IF c \in {"W", "M"} THEN 3 ELSE 1

RECURSIVE measureText(_)
measureText(s) ==
    IF Len(s) = 0 THEN 0 ELSE GlyphWidth(Head(s)) + measureText(Tail(s))

\* index of the first space of s, 0 when there is none
RECURSIVE indexOfSpace(_, _)
indexOfSpace(s, k) ==
    IF k > Len(s) THEN 0
    ELSE IF s[k] = Space THEN k
    ELSE indexOfSpace(s, k + 1)

\* String.prototype.split(" "): "" gives [""], "a  b" gives ["a","","b"]
RECURSIVE split(_)
split(s) ==
    LET p == indexOfSpace(s, 1)
    IN IF p = 0 THEN <<s>>
       ELSE <<SubSeq(s, 1, p - 1)>> \o split(SubSeq(s, p + 1, Len(s)))

\* Array.prototype.join(" "): [] gives ""
RECURSIVE join(_)
join(ws) ==
    IF Len(ws) = 0 THEN <<>>
    ELSE IF Len(ws) = 1 THEN ws[1]
    ELSE ws[1] \o <<Space>> \o join(Tail(ws))

\* the text of the class field initialiser, "Hello World!"
DefaultText == <<"H", "e", "l", "l", "o", " ", "W", "o", "r", "l", "d", "!">>

\* ctx.measureText("M").width
approximateLineHeight == measureText(<<"M">>)

\* ------------------------------------------------------- createTextRows
\* the test of line 227
overflowsMutant(previewText, maxWidth) ==
    measureText(join(previewText)) >= maxWidth + 2

overflows(previewText, maxWidth) ==
    measureText(join(previewText)) > maxWidth

\* this.rows.push({ text: lineText.join(" ") })
pushRow(rws, lineText) == Append(rws, [text |-> join(lineText)])

\* the rows pushed after the loop (lines 237-239)
finalRowsMutant(rws, lineText) ==
    IF Len(lineText) = 1 /\ Len(lineText[1]) = 0 THEN rws
    ELSE pushRow(rws, lineText)

finalRows(rws, lineText) == pushRow(rws, lineText)

\* the loop of lines 224-235, from word k on
RECURSIVE wrapLoop(_, _, _, _, _, _)
wrapLoop(words, k, rws, previewText, lineText, maxWidth) ==
    IF k > Len(words) THEN finalRows(rws, lineText)
    ELSE LET word == words[k]
             preview == Append(previewText, word)
         IN IF overflows(preview, maxWidth)
            THEN wrapLoop(words, k + 1, pushRow(rws, lineText),
                          <<word>>, <<word>>, maxWidth)
            ELSE wrapLoop(words, k + 1, rws,
                          preview, Append(lineText, word), maxWidth)

\* createTextRows(ctx) on an instance whose rows, text and width are given:
\* the value of this.rows when it returns
createTextRows(rws, txt, maxWidth) ==
    wrapLoop(split(txt), 1, rws, <<>>, <<>>, maxWidth)

\* ------------------------------------------------------------------- state
VARIABLES
    source,           \* what gifFrames decodes from this.source: one record per frame
    numberOfFrames, retained, extractedFrames, width, height, text,
    textOptions, buffer, canvasOptions, rows,       \* the fields of the instance
    pc,               \* position of the call in flight, "idle" when there is none
    call,             \* the call in flight or last returned: its name and arguments
    history,          \* names of the calls that have returned, oldest first
    result,           \* how the last call settled
    faults,           \* failures injected so far
    i,                \* loop counter of #extractFrames
    index,            \* loop counter of #renderGIF
    encoder,          \* the GIFEncoder of the render in flight or last run
    ctx,              \* the canvas context of that render
    withoutText,      \* the local of line 365; <<>> while undefined
    emitted,          \* events emitted by the call in flight or last returned
    requests          \* the getWidth, getHeight and noOfFrames calls made so far

vars == <<source, numberOfFrames, retained, extractedFrames, width, height,
          text, textOptions, buffer, canvasOptions, rows, pc, call, history,
          result, faults, i, index, encoder, ctx, withoutText, emitted,
          requests>>

instanceVars == <<numberOfFrames, retained, extractedFrames, width, height,
                  text, textOptions, buffer, canvasOptions, rows>>

\* a nullable number: <<>> is null, <<n>> is the number n
Null == <<>>

\* lines 77-93
DefaultTextOptions ==
    [fontFamily |-> "calibri", fontColor |-> "white",
     strokeColor |-> "transparent", fontSize |-> "32px", strokeWidth |-> 1,
     alignmentX |-> "center", alignmentY |-> "bottom",
     offsetX |-> 10, offsetY |-> 10, positionX |-> Null, positionY |-> Null,
     rowGap |-> 5, repeat |-> 0, retain |-> FALSE, transparent |-> FALSE]

\* lines 105-110
DefaultCanvasOptions ==
    [x |-> 0, y |-> 0, textAlign |-> "start", textBaseline |-> "bottom"]

\* the drawing state of a new canvas context, nothing painted
NewContext ==
    [pixels |-> <<>>, strokeStyle |-> "#000000", lineWidth |-> 1,
     font |-> <<"10px", "sans-serif">>, fillStyle |-> "#000000",
     textAlign |-> "start", textBaseline |-> "alphabetic"]

\* no encoder has been constructed yet
NoEncoder ==
    [width |-> 0, height |-> 0, totalFrames |-> 0, transparent |-> FALSE,
     repeat |-> Null, delay |-> 0, dispose |-> -1, started |-> FALSE,
     finished |-> 0, frames |-> <<>>, calls |-> <<>>]

NoCall == [op |-> "none", text |-> <<>>, options |-> <<>>]
NoResult == [status |-> "none", buffer |-> <<>>, error |-> ""]

\* how a call settles: resolved with a value, or rejected with an error
resolved(value) == [status |-> "resolved", buffer |-> value, error |-> ""]
rejected(error) == [status |-> "rejected", buffer |-> <<>>, error |-> error]

\* line 213
EmptyBufferError == "Result GIF buffer returned empty"

\* the frames a decoder can report for a gif of w x h pixels
FrameInfos(w, h) ==
    [width : {w}, height : {h}, delay : Delays, disposal : Disposals]

Sources(w, h) == UNION {[1..n -> FrameInfos(w, h)] : n \in 1..MaxFrames}

\* the arguments the calls of the pipeline are made with
PipelineTexts == {<<"a">>, <<"a", " ", "b">>}

OptionPatches ==
    {[alignmentY |-> "top", offsetY |-> 1, repeat |-> -1],
     [retain |-> TRUE, positionX |-> <<0>>, strokeColor |-> "black",
      repeat |-> 5]}

\* an optional options argument: <<>> when omitted, <<o>> when o is passed
OptionArgs == {<<>>} \cup {<<o>> : o \in OptionPatches}

\* the constructor, lines 42-126
InstanceInit ==
    /\ numberOfFrames = 0
    /\ retained = FALSE
    /\ extractedFrames = <<>>
    /\ width = 0
    /\ height = 0
    /\ text = DefaultText
    /\ textOptions = DefaultTextOptions
    /\ buffer = Null
    /\ canvasOptions = DefaultCanvasOptions
    /\ rows = <<>>

ControlInit ==
    /\ pc = "idle"
    /\ call = NoCall
    /\ history = <<>>
    /\ result = NoResult
    /\ faults = 0
    /\ i = 0
    /\ index = 0
    /\ encoder = NoEncoder
    /\ ctx = NewContext
    /\ withoutText = <<>>
    /\ emitted = <<>>
    /\ requests = <<>>

Init ==
    /\ source \in Sources(SourceWidth, SourceHeight)
    /\ InstanceInit
    /\ ControlInit

\* --------------------------------------------------- setText, #extractFrames
\* Object.assign(target, src)
assignMutant(target, src) ==
    [k \in DOMAIN src |-> src[k]] @@
    [k \in DOMAIN target \ DOMAIN src |-> DefaultTextOptions[k]]

assign(target, src) ==
    [k \in DOMAIN target \cup DOMAIN src |->
        IF k \in DOMAIN src THEN src[k] ELSE target[k]]

\* lines 192-196, up to the call of #extractFrames
SetText(t, o) ==
    /\ pc = "idle"
    /\ Len(history) < MaxCalls
    /\ textOptions' = IF o # <<>> THEN assign(textOptions, o[1]) ELSE textOptions
    /\ text' = t
    /\ rows' = <<>>
    /\ call' = [op |-> "setText", text |-> t, options |-> o]
    /\ emitted' = <<>>
    /\ pc' = "gifFrames"
    /\ UNCHANGED <<source, requests, numberOfFrames, retained, extractedFrames, width,
                   height, buffer, canvasOptions, history, result, faults,
                   i, index, encoder, ctx, withoutText>>

\* line 156
frameCountMutant(frames) == Len(frames) - 1

frameCount(frames) == Len(frames)

\* the field a getter reads, lines 425, 439 and 453
fieldOf(getter, w, h, n) ==
    IF getter = "getWidth" THEN w
    ELSE IF getter = "getHeight" THEN h
    ELSE n

\* lines 428-430, 442-444 and 457-459: the listeners of the pending requests
\* run on "frameDataExtreacted" and resolve them with the fields as they are
notify(reqs, w, h, n) ==
    [k \in 1..Len(reqs) |->
        IF reqs[k].status = "pending"
        THEN [reqs[k] EXCEPT !.status = "resolved",
                             !.value = fieldOf(reqs[k].getter, w, h, n)]
        ELSE reqs[k]]

\* lines 147-159: the source decodes
GifFramesOk ==
    /\ pc = "gifFrames"
    /\ width' = source[1].width
    /\ height' = source[1].height
    /\ numberOfFrames' = frameCount(source)
    /\ emitted' = Append(emitted, <<"frameDataExtreacted", 0>>)
    /\ requests' = notify(requests, width', height', numberOfFrames')
    /\ i' = 0
    /\ pc' = "extract"
    /\ UNCHANGED <<source, retained, extractedFrames, text, textOptions,
                   buffer, canvasOptions, rows, call, history, result,
                   faults, index, encoder, ctx, withoutText>>

\* line 147: gifFrames rejects, and so does setText
GifFramesFail ==
    /\ pc = "gifFrames"
    /\ faults < MaxFaults
    /\ faults' = faults + 1
    /\ result' = rejected("gifFrames")
    /\ history' = Append(history, call.op)
    /\ pc' = "idle"
    /\ UNCHANGED <<source, requests, instanceVars, call, i, index, encoder, ctx,
                   withoutText, emitted>>

\* lines 171-172
storedDelay(frame) == frame.delay * 10

\* lines 169-173: the frame stored for decoded frame k
extractedFrame(frames, k) ==
    [imageData |-> [kind |-> "Image", frame |-> k, pixels |-> <<>>],
     delay |-> storedDelay(frames[k]),
     disposal |-> frames[k].disposal]

\* lines 160-181, one iteration whose body succeeds
ExtractFrameOk ==
    /\ pc = "extract"
    /\ i < Len(source)
    /\ extractedFrames' = Append(extractedFrames, extractedFrame(source, i + 1))
    /\ i' = i + 1
    /\ UNCHANGED <<source, requests, numberOfFrames, retained, width, height, text,
                   textOptions, buffer, canvasOptions, rows, pc, call,
                   history, result, faults, index, encoder, ctx, withoutText,
                   emitted>>

\* lines 160-181, one iteration whose body throws before the push
ExtractFrameFail ==
    /\ pc = "extract"
    /\ i < Len(source)
    /\ faults < MaxFaults
    /\ faults' = faults + 1
    /\ i' = i + 1
    /\ UNCHANGED <<source, requests, instanceVars, pc, call, history, result, index,
                   encoder, ctx, withoutText, emitted>>

\* lines 183 and 199: the loop is over, setText resolves
ExtractionComplete ==
    /\ pc = "extract"
    /\ i >= Len(source)
    /\ emitted' = Append(emitted, <<"extractionComplete", 0>>)
    /\ result' = resolved(<<>>)
    /\ history' = Append(history, call.op)
    /\ pc' = "idle"
    /\ UNCHANGED <<source, requests, instanceVars, call, faults, i, index, encoder,
                   ctx, withoutText>>

\* ------------------------------------------------------ toBuffer, toFile
\* lines 206-207 and 245-246: the call enters #renderGIF
Output(op) ==
    /\ pc = "idle"
    /\ Len(history) < MaxCalls
    /\ call' = [op |-> op, text |-> <<>>, options |-> <<>>]
    /\ emitted' = <<>>
    /\ pc' = "render"
    /\ UNCHANGED <<source, requests, instanceVars, history, result, faults, i, index,
                   encoder, ctx, withoutText>>

\* lines 256-274: new GIFEncoder(...), setTransparent, setRepeat, start
newEncoderMutant(w, h, total, options) ==
    LET r == IF options.repeat < 0 THEN 0 ELSE options.repeat
    IN [width |-> w, height |-> h, totalFrames |-> total,
        transparent |-> options.transparent,
        repeat |-> <<r>>, delay |-> 0, dispose |-> -1,
        started |-> TRUE, finished |-> 0, frames |-> <<>>,
        calls |-> (IF options.transparent THEN << <<"setTransparent", 1>> >>
                   ELSE <<>>)
                  \o << <<"setRepeat", r>>, <<"start", 0>> >>]

newEncoder(w, h, total, options) ==
    [width |-> w, height |-> h, totalFrames |-> total,
     transparent |-> options.transparent,
     repeat |-> <<options.repeat>>, delay |-> 0, dispose |-> -1,
     started |-> TRUE, finished |-> 0, frames |-> <<>>,
     calls |-> (IF options.transparent THEN << <<"setTransparent", 1>> >>
                ELSE <<>>)
               \o << <<"setRepeat", options.repeat>>, <<"start", 0>> >>]

\* lines 283-300, x in half pixels
anchorXMutant(co, options, w) ==
    IF options.positionX # Null /\ options.positionX[1] # 0
    THEN [co EXCEPT !.textAlign = "start", !.x = 2 * options.positionX[1]]
    ELSE IF options.alignmentX = "right"
    THEN [co EXCEPT !.textAlign = "right", !.x = 2 * (w - options.offsetX)]
    ELSE IF options.alignmentX = "left"
    THEN [co EXCEPT !.textAlign = "left", !.x = 2 * options.offsetX]
    ELSE [co EXCEPT !.textAlign = "center", !.x = w]

anchorX(co, options, w) ==
    IF options.positionX # Null
    THEN [co EXCEPT !.textAlign = "start", !.x = 2 * options.positionX[1]]
    ELSE IF options.alignmentX = "right"
    THEN [co EXCEPT !.textAlign = "right", !.x = 2 * (w - options.offsetX)]
    ELSE IF options.alignmentX = "left"
    THEN [co EXCEPT !.textAlign = "left", !.x = 2 * options.offsetX]
    ELSE IF options.alignmentX = "center"
    THEN [co EXCEPT !.textAlign = "center", !.x = w]
    ELSE co

\* lines 301-342, y in half pixels
anchorYMutant(co, options, h, n, lineHeight) ==
    IF options.positionY # Null
    THEN [co EXCEPT !.textBaseline = "top", !.y = 2 * options.positionY[1]]
    ELSE IF options.alignmentY = "top"
    THEN [co EXCEPT !.textBaseline = "hanging", !.y = 2 * options.offsetY]
    ELSE IF options.alignmentY = "middle"
    THEN [co EXCEPT !.textBaseline = "middle", !.y = h]
    ELSE [co EXCEPT !.textBaseline = "bottom", !.y = 2 * (h - options.offsetY)]

anchorY(co, options, h, n, lineHeight) ==
    IF options.positionY # Null
    THEN [co EXCEPT !.textBaseline = "top", !.y = 2 * options.positionY[1]]
    ELSE IF n = 1
    THEN IF options.alignmentY = "top"
         THEN [co EXCEPT !.textBaseline = "hanging", !.y = 2 * options.offsetY]
         ELSE IF options.alignmentY = "middle"
         THEN [co EXCEPT !.textBaseline = "middle", !.y = h]
         ELSE [co EXCEPT !.textBaseline = "bottom",
                         !.y = 2 * (h - options.offsetY)]
    ELSE IF options.alignmentY = "top"
         THEN [co EXCEPT !.textBaseline = "hanging", !.y = 2 * options.offsetY]
         ELSE IF options.alignmentY = "middle"
         THEN [co EXCEPT !.textBaseline = "top",
                         !.y = h - (n * lineHeight + (n - 1) * options.rowGap)]
         ELSE [co EXCEPT !.textBaseline = "bottom",
                         !.y = 2 * (h - ((n - 1) * (lineHeight + options.rowGap)
                                         + options.offsetY))]

\* line 281: the rows the render composites with
layoutRows(rws, txt, maxWidth) == createTextRows(rws, txt, maxWidth)

\* line 261: this.extractedFrames.length, the total the encoder is told
expectedFramesMutant(frames) ==
    Len(SelectSeq(frames, LAMBDA f : f.imageData.kind = "Image"))

expectedFrames(frames) == Len(frames)

\* lines 256-342: encoder and canvas are made, the text is laid out and anchored
RenderSetup ==
    /\ pc = "render"
    /\ encoder' = newEncoder(width, height, expectedFrames(extractedFrames),
                           textOptions)
    /\ ctx' = [NewContext EXCEPT
                 !.font = <<textOptions.fontSize, textOptions.fontFamily>>]
    /\ rows' = layoutRows(rows, text, width)
    /\ canvasOptions' =
         anchorY(anchorX(canvasOptions, textOptions, width),
                 textOptions, height, Len(rows'), approximateLineHeight)
    /\ index' = 0
    /\ withoutText' = <<>>
    /\ pc' = "frame"
    /\ UNCHANGED <<source, requests, numberOfFrames, retained, extractedFrames, width,
                   height, text, textOptions, buffer, call, history, result,
                   faults, i, emitted>>

\* what is painted on the canvas, bottom layer first
ImageLayer(k) ==
    [kind |-> "image", frame |-> k, text |-> <<>>, x |-> 0, y |-> 0,
     strokeStyle |-> "", lineWidth |-> 0, font |-> <<>>, fillStyle |-> "",
     textAlign |-> "", textBaseline |-> ""]

TextLayer(kind, c, txt, x, y) ==
    [kind |-> kind, frame |-> 0, text |-> txt, x |-> x, y |-> y,
     strokeStyle |-> c.strokeStyle, lineWidth |-> c.lineWidth, font |-> c.font,
     fillStyle |-> c.fillStyle, textAlign |-> c.textAlign,
     textBaseline |-> c.textBaseline]

\* lines 348-355 when the call does not throw: drawImage paints an Image over
\* the canvas, putImageData replaces the canvas by an ImageData
paint(c, frame, isRetained) ==
    IF ~isRetained
    THEN [c EXCEPT !.pixels = Append(@, ImageLayer(frame.imageData.frame))]
    ELSE [c EXCEPT !.pixels = frame.imageData.pixels]

\* whether the call of lines 348-355 can succeed: drawImage takes an Image,
\* putImageData an ImageData
paintable(frame, isRetained) ==
    IF ~isRetained THEN frame.imageData.kind = "Image"
    ELSE frame.imageData.kind = "ImageData"

\* lines 358-363
setStyleMutant(c, options, co) ==
    [c EXCEPT !.strokeStyle = "black",
              !.lineWidth = options.strokeWidth,
              !.font = <<options.fontSize, options.fontFamily>>,
              !.fillStyle = options.fontColor,
              !.textAlign = co.textAlign,
              !.textBaseline = co.textBaseline]

setStyle(c, options, co) ==
    [c EXCEPT !.strokeStyle = options.strokeColor,
              !.lineWidth = options.strokeWidth,
              !.font = <<options.fontSize, options.fontFamily>>,
              !.fillStyle = options.fontColor,
              !.textAlign = co.textAlign,
              !.textBaseline = co.textBaseline]

\* line 345
frameIndexEventMutant(idx) == <<"frameIndexUpdate", idx + 1>>

frameIndexEvent(idx) == <<"frameIndexUpdate", idx>>

\* lines 344-345: an iteration starts
FrameBegin ==
    /\ pc = "frame"
    /\ index < Len(extractedFrames)
    /\ emitted' = Append(emitted, frameIndexEvent(index))
    /\ pc' = "paint"
    /\ UNCHANGED <<source, requests, instanceVars, call, history, result,
                   faults, i, index, encoder, ctx, withoutText>>

\* lines 347-356: the catch block is empty, the iteration goes on at line 358
\* whether the paint threw or not
afterPaintMutant(ok) == IF ok THEN "snapshot" ELSE "idle"

afterPaint(ok) == "snapshot"

\* lines 347-367 of one iteration; ok is whether the paint of 348-355 succeeds
FramePaint(ok) ==
    /\ pc = "paint"
    /\ LET frame == extractedFrames[index + 1]
       IN /\ ok => paintable(frame, retained)
          /\ (~ok /\ paintable(frame, retained)) => faults < MaxFaults
          /\ faults' = IF ~ok /\ paintable(frame, retained)
                       THEN faults + 1 ELSE faults
          /\ ctx' = setStyle(IF ok THEN paint(ctx, frame, retained) ELSE ctx,
                             textOptions, canvasOptions)
    /\ withoutText' = <<>>
    /\ rows' = IF Len(rows) = 0 THEN createTextRows(rows, text, width) ELSE rows
    /\ pc' = afterPaint(ok)
    /\ UNCHANGED <<source, requests, numberOfFrames, retained, extractedFrames,
                   width, height, text, textOptions, buffer, canvasOptions,
                   call, history, result, i, index, encoder, emitted>>

\* line 369
needsSnapshot(frame) == frame.disposal # 2

\* lines 369-371
FrameSnapshot ==
    /\ pc = "snapshot"
    /\ withoutText' = IF needsSnapshot(extractedFrames[index + 1])
                      THEN <<ctx.pixels>> ELSE withoutText
    /\ pc' = "drawText"
    /\ UNCHANGED <<source, requests, instanceVars, call, history, result, faults, i,
                   index, encoder, ctx, emitted>>

\* new Array(...rows).reverse()
reverseMutant(xs) == xs

reverse(xs) == [k \in 1..Len(xs) |-> xs[Len(xs) + 1 - k]]

\* strokeText then fillText of one line at (x, y), lines 374-375 and 380-383
drawLine(c, txt, x, y) ==
    [c EXCEPT !.pixels = @ \o <<TextLayer("strokeText", c, txt, x, y),
                                TextLayer("fillText", c, txt, x, y)>>]

\* the loop of lines 378-384 from rowIndex on; y in half pixels
RECURSIVE drawRows(_, _, _, _, _, _)
drawRows(c, reverseRows, rowIndex, co, lineHeight, rowGap) ==
    IF rowIndex >= Len(reverseRows) THEN c
    ELSE drawRows(drawLine(c, reverseRows[rowIndex + 1].text, co.x,
                           co.y - 2 * (rowIndex * (lineHeight + rowGap))),
                  reverseRows, rowIndex + 1, co, lineHeight, rowGap)

\* lines 373-385
drawText(c, rws, txt, co, lineHeight, rowGap) ==
    IF Len(rws) = 1 THEN drawLine(c, txt, co.x, co.y)
    ELSE drawRows(c, reverse(rws), 0, co, lineHeight, rowGap)

\* lines 373-385
FrameDrawText ==
    /\ pc = "drawText"
    /\ ctx' = drawText(ctx, rows, text, canvasOptions, approximateLineHeight,
                       textOptions.rowGap)
    /\ pc' = "commit"
    /\ UNCHANGED <<source, requests, instanceVars, call, history, result, faults, i,
                   index, encoder, withoutText, emitted>>

\* lines 387-389: encoder.setDelay, encoder.setDispose, encoder.addFrame(ctx)
addFrameMutant(enc, frame, pixels) ==
    [enc EXCEPT !.dispose = frame.disposal,
                !.delay = frame.delay,
                !.frames = Append(@, [delay |-> frame.delay,
                                      dispose |-> frame.disposal,
                                      pixels |-> pixels]),
                !.calls = @ \o << <<"setDispose", frame.disposal>>,
                                  <<"setDelay", frame.delay>>,
                                  <<"addFrame", Len(enc.frames)>> >>]

addFrame(enc, frame, pixels) ==
    [enc EXCEPT !.delay = frame.delay,
                !.dispose = frame.disposal,
                !.frames = Append(@, [delay |-> frame.delay,
                                      dispose |-> frame.disposal,
                                      pixels |-> pixels]),
                !.calls = @ \o << <<"setDelay", frame.delay>>,
                                  <<"setDispose", frame.disposal>>,
                                  <<"addFrame", Len(enc.frames)>> >>]

\* lines 391-397: the stored frame after the writeback of the retain option
writebackMutant(frame, options, pixels) ==
    [frame EXCEPT !.imageData =
        [kind |-> "ImageData", frame |-> 0, pixels |-> pixels]]

writeback(frame, options, pixels) ==
    IF options.retain
    THEN [frame EXCEPT !.imageData =
            [kind |-> "ImageData", frame |-> 0, pixels |-> pixels]]
    ELSE frame

\* lines 387-397
FrameCommit ==
    /\ pc = "commit"
    /\ encoder' = addFrame(encoder, extractedFrames[index + 1], ctx.pixels)
    /\ extractedFrames' =
         [extractedFrames EXCEPT
            ![index + 1] = writeback(@, textOptions, ctx.pixels)]
    /\ pc' = "restore"
    /\ UNCHANGED <<source, requests, numberOfFrames, retained, width, height, text,
                   textOptions, buffer, canvasOptions, rows, call, history,
                   result, faults, i, index, ctx, withoutText, emitted>>

\* lines 399-403: clearRect of the whole canvas, or putImageData(withoutText)
restoreMutant(c, frame, snapshot) ==
    IF frame.disposal = 2 THEN [c EXCEPT !.pixels = <<>>] ELSE c

restore(c, frame, snapshot) ==
    IF frame.disposal = 2 THEN [c EXCEPT !.pixels = <<>>]
    ELSE [c EXCEPT !.pixels = snapshot[1]]

\* lines 399-404: the background is restored and the loop moves on
FrameRestore ==
    /\ pc = "restore"
    /\ ctx' = restore(ctx, extractedFrames[index + 1], withoutText)
    /\ index' = index + 1
    /\ pc' = "frame"
    /\ UNCHANGED <<source, requests, instanceVars, call, history, result, faults, i,
                   encoder, withoutText, emitted>>

\* encoder.out.getData(): what the encoder was given, as the encoded gif
getData(enc) ==
    [width |-> enc.width, height |-> enc.height, repeat |-> enc.repeat,
     transparent |-> enc.transparent, frames |-> enc.frames]

\* line 406: encoder.finish()
finishMutant(enc) == enc

finish(enc) ==
    [enc EXCEPT !.finished = @ + 1, !.calls = Append(@, <<"finish", 0>>)]

\* lines 406-409, after the last iteration
RenderFinish ==
    /\ pc = "frame"
    /\ index >= Len(extractedFrames)
    /\ encoder' = finish(encoder)
    /\ buffer' = <<getData(encoder')>>
    /\ emitted' = Append(emitted, <<"finished", 0>>)
    /\ pc' = "output"
    /\ UNCHANGED <<source, requests, numberOfFrames, retained, extractedFrames, width,
                   height, text, textOptions, canvasOptions, rows, call,
                   history, result, faults, i, index, ctx, withoutText>>

\* lines 406-409 when encoder.out.getData() yields no data: this.buffer is
\* assigned a missing value
RenderFinishNoData ==
    /\ pc = "frame"
    /\ index >= Len(extractedFrames)
    /\ faults < MaxFaults
    /\ faults' = faults + 1
    /\ encoder' = finish(encoder)
    /\ buffer' = Null
    /\ emitted' = Append(emitted, <<"finished", 0>>)
    /\ pc' = "output"
    /\ UNCHANGED <<source, requests, numberOfFrames, retained, extractedFrames,
                   width, height, text, textOptions, canvasOptions, rows, call,
                   history, result, i, index, ctx, withoutText>>

\* lines 209-214 and 248: toBuffer resolves with this.buffer; toFile writes
\* the buffer and resolves, or throws when there is none
outcome(op, buf) ==
    IF op = "toFile" /\ buf = Null THEN rejected(EmptyBufferError)
    ELSE resolved(buf)

\* lines 209-214 and 248: the output request settles
OutputReturn ==
    /\ pc = "output"
    /\ result' = outcome(call.op, buffer)
    /\ history' = Append(history, call.op)
    /\ pc' = "idle"
    /\ UNCHANGED <<source, requests, instanceVars, call, faults, i, index, encoder, ctx,
                   withoutText, emitted>>

\* line 210: writeStreamToFile rejects, and so does toFile
OutputWriteFail ==
    /\ pc = "output"
    /\ call.op = "toFile"
    /\ buffer # Null
    /\ faults < MaxFaults
    /\ faults' = faults + 1
    /\ result' = rejected("writeStreamToFile")
    /\ history' = Append(history, call.op)
    /\ pc' = "idle"
    /\ UNCHANGED <<source, requests, instanceVars, call, i, index, encoder, ctx,
                   withoutText, emitted>>

\* ------------------------------------------------------------ the pipeline
Next ==
    \/ \E t \in PipelineTexts, o \in OptionArgs : SetText(t, o)
    \/ GifFramesOk
    \/ GifFramesFail
    \/ ExtractFrameOk
    \/ ExtractFrameFail
    \/ ExtractionComplete
    \/ \E op \in {"toBuffer", "toFile"} : Output(op)
    \/ RenderSetup
    \/ FrameBegin
    \/ \E ok \in BOOLEAN : FramePaint(ok)
    \/ FrameSnapshot
    \/ FrameDrawText
    \/ FrameCommit
    \/ FrameRestore
    \/ RenderFinish
    \/ RenderFinishNoData
    \/ OutputReturn
    \/ OutputWriteFail

Spec == Init /\ [][Next]_vars

\* ------------------------------------------------- the wrap on its own
\* every text of at most MaxLen characters over the alphabet
WrapTexts == UNION {[1..n -> WrapAlphabet] : n \in 0..MaxLen}

\* the instance when setText(t) has returned: resolved on a one-frame gif
\* of width w, or rejected by the decoder (w = 0, the width is still 0)
InitWrap ==
    \E t \in WrapTexts, w \in 0..MaxWidth :
        /\ source = <<[width |-> IF w = 0 THEN SourceWidth ELSE w,
                       height |-> SourceHeight, delay |-> 1, disposal |-> 1]>>
        /\ text = t
        /\ rows = <<>>
        /\ width = w
        /\ height = IF w = 0 THEN 0 ELSE SourceHeight
        /\ numberOfFrames = IF w = 0 THEN 0 ELSE 1
        /\ extractedFrames =
             IF w = 0 THEN <<>> ELSE <<extractedFrame(source, 1)>>
        /\ emitted = IF w = 0 THEN <<>>
                     ELSE << <<"frameDataExtreacted", 0>>,
                             <<"extractionComplete", 0>> >>
        /\ result = IF w = 0 THEN rejected("gifFrames") ELSE resolved(<<>>)
        /\ faults = IF w = 0 THEN 1 ELSE 0
        /\ i = IF w = 0 THEN 0 ELSE 1
        /\ call = [op |-> "setText", text |-> t, options |-> <<>>]
        /\ history = <<"setText">>
        /\ retained = FALSE
        /\ textOptions = DefaultTextOptions
        /\ buffer = Null
        /\ canvasOptions = DefaultCanvasOptions
        /\ pc = "idle"
        /\ index = 0
        /\ encoder = NoEncoder
        /\ ctx = NewContext
        /\ withoutText = <<>>
        /\ requests = <<>>

\* lines 221-240: createTextRows(ctx), a public method, called directly
CreateTextRowsCall ==
    /\ pc = "idle"
    /\ Len(history) < 1 + MaxLayoutRuns
    /\ rows' = createTextRows(rows, text, width)
    /\ call' = [op |-> "createTextRows", text |-> <<>>, options |-> <<>>]
    /\ history' = Append(history, "createTextRows")
    /\ result' = resolved(<<>>)
    /\ emitted' = <<>>
    /\ UNCHANGED <<source, requests, numberOfFrames, retained, extractedFrames, width,
                   height, text, textOptions, buffer, canvasOptions, pc,
                   faults, i, index, encoder, ctx, withoutText>>

NextWrap == CreateTextRowsCall

SpecWrap == InitWrap /\ [][NextWrap]_vars

\* ------------------------------------------------------ claims on the wrap
\* the words of the rows, row after row
RECURSIVE rowWords(_)
rowWords(rws) ==
    IF Len(rws) = 0 THEN <<>> ELSE split(rws[1].text) \o rowWords(Tail(rws))

\* a step in which createTextRows ran
LayoutRan ==
    /\ Len(history') = Len(history) + 1
    /\ history'[Len(history')] = "createTextRows"

\* the rows that step pushed
pushedRows == SubSeq(rows', Len(rows) + 1, Len(rows'))

overWide(word) == measureText(word) > width

\* C7: every row is at most as wide as the canvas, except a row that is a
\* single word (which is then a word wider than the canvas).
RowsFit ==
    \A k \in 1..Len(rows) :
        measureText(rows[k].text) > width => Len(split(rows[k].text)) = 1

\* C7 witness: the layout wrapped a text and kept a two-word row that fits
RowsFitWitness ==
    /\ call.op = "createTextRows"
    /\ Len(rows) >= 2
    /\ \E k \in 1..Len(rows) :
          /\ Len(split(rows[k].text)) = 2
          /\ measureText(rows[k].text) = width
    /\ \E k \in 1..Len(rows) : measureText(rows[k].text) > width

\* C8: the words of the rows a layout run pushes, in row order, are the words
\* of the text.
WordsRoundTrip ==
    [][LayoutRan => rowWords(pushedRows) = split(text)]_vars

\* C9: a layout run emits every word wider than the canvas as a row of its
\* own and no row besides: a text of one such word gives one row, and a text
\* that starts with such a word has it as its first row.
OverWideOwnRow ==
    [][LayoutRan =>
        LET ws == split(text)
            R == pushedRows
        IN /\ \A j \in 1..Len(ws) :
                overWide(ws[j]) => \E k \in 1..Len(R) : R[k].text = ws[j]
           /\ (Len(ws) = 1 /\ overWide(ws[1])) => Len(R) = 1
           /\ overWide(ws[1]) => R[1].text = ws[1]]_vars

\* C10: a layout run pushes at least one row, exactly one empty row for the
\* empty text, and its last row is the line accumulated last: the words from
\* some word of the text to the last one. Once the layout has run, rows is
\* not empty.
LayoutNeverEmpty ==
    /\ [](call.op = "createTextRows" => Len(rows) >= 1)
    /\ [][LayoutRan =>
            LET ws == split(text)
                R == pushedRows
            IN /\ Len(R) >= 1
               /\ text = <<>> => R = <<[text |-> <<>>]>>
               /\ \E j \in 1..Len(ws) :
                     R[Len(R)].text = join(SubSeq(ws, j, Len(ws)))]_vars

\* C10 witness: the layout has run twice on the empty text
LayoutNeverEmptyWitness ==
    /\ call.op = "createTextRows"
    /\ text = <<>>
    /\ rows = <<[text |-> <<>>], [text |-> <<>>]>>

\* -------------------------------------------------- claims on the pipeline
IsFrameCall(c) == c[1] \in {"setDelay", "setDispose", "addFrame"}

\* the calls a frame store makes the encoder see, frame k first
RECURSIVE frameCalls(_, _)
frameCalls(frames, k) ==
    IF k > Len(frames) THEN <<>>
    ELSE << <<"setDelay", frames[k].delay>>,
            <<"setDispose", frames[k].disposal>>,
            <<"addFrame", k - 1>> >> \o frameCalls(frames, k + 1)

\* delay and disposal of the stored frames
metadata(frames) ==
    [k \in 1..Len(frames) |->
        [delay |-> frames[k].delay, disposal |-> frames[k].disposal]]

\* C1: while a render runs, the encoder holds one frame for each stored frame
\* the loop has passed, in order and with that frame's delay and disposal,
\* through the calls set-delay, set-disposal, append; when the loop is over
\* all stored frames are in. A frame enters the store with ten times the
\* delay and the same disposal the decoder reports, and a render changes
\* neither.
EncodesStoreInOrder ==
    /\ []((pc \in {"frame", "output"}) =>
            /\ Len(encoder.frames) = index
            /\ pc = "output" => index = Len(extractedFrames)
            /\ \A k \in 1..index :
                  /\ encoder.frames[k].delay = extractedFrames[k].delay
                  /\ encoder.frames[k].dispose = extractedFrames[k].disposal
            /\ SelectSeq(encoder.calls, IsFrameCall)
                 = frameCalls(SubSeq(extractedFrames, 1, index), 1))
    /\ [][(Len(extractedFrames') > Len(extractedFrames) =>
              /\ Len(extractedFrames') = Len(extractedFrames) + 1
              /\ extractedFrames'[Len(extractedFrames')].delay
                   = source[i + 1].delay * 10
              /\ extractedFrames'[Len(extractedFrames')].disposal
                   = source[i + 1].disposal
              /\ SubSeq(extractedFrames', 1, Len(extractedFrames))
                   = extractedFrames)
          /\ (pc \notin {"idle", "gifFrames", "extract"} =>
                metadata(extractedFrames') = metadata(extractedFrames))]_vars

\* C1 witness: a render has encoded two frames that differ in delay and
\* disposal
EncodesStoreInOrderWitness ==
    /\ pc = "output"
    /\ Len(encoder.frames) = 2
    /\ encoder.frames[1].delay = 10 /\ encoder.frames[2].delay = 20
    /\ encoder.frames[1].dispose # encoder.frames[2].dispose

IsTextLayer(layer) == layer.kind \in {"strokeText", "fillText"}

hasText(pixels) == \E k \in 1..Len(pixels) : IsTextLayer(pixels[k])

\* C2: a frame has a snapshot exactly if its disposal is not 2, and the
\* snapshot holds no text; when the frame is done the canvas is blank if its
\* disposal is 2 and equal to its snapshot otherwise, so the next frame
\* starts on a canvas without text.
BackgroundRestored ==
    /\ pc \in {"drawText", "commit", "restore"} =>
          /\ (withoutText # <<>>) <=> (extractedFrames[index + 1].disposal # 2)
          /\ withoutText # <<>> => ~hasText(withoutText[1])
    /\ pc \in {"commit", "restore"} => hasText(ctx.pixels)
    /\ (pc \in {"frame", "output"} /\ index > 0) =>
          IF extractedFrames[index].disposal = 2
          THEN ctx.pixels = <<>>
          ELSE withoutText # <<>> /\ ctx.pixels = withoutText[1]
    /\ pc \in {"frame", "paint"} => ~hasText(ctx.pixels)

\* C2 witness: the second frame starts on the restored picture of the first
BackgroundRestoredWitness ==
    /\ pc = "frame"
    /\ index = 1
    /\ Len(extractedFrames) > 1
    /\ extractedFrames[1].disposal # 2
    /\ ctx.pixels = <<ImageLayer(1)>>

\* what a render hands to the encoder besides the pictures: per frame the
\* delay, the disposal and the text drawing operations
handedOver(data) ==
    [k \in 1..Len(data.frames) |->
        [delay |-> data.frames[k].delay, dispose |-> data.frames[k].dispose,
         drawn |-> SelectSeq(data.frames[k].pixels, IsTextLayer)]]

\* the call that returned last was an output request
AfterOutput ==
    /\ history # <<>>
    /\ history[Len(history)] \in {"toBuffer", "toFile"}

\* C3: an output request that follows an output request, with no setText in
\* between, lays out the same rows with the same anchor and modes and hands
\* the same draw operations and frame metadata to the encoder.
RerenderSame ==
    [][/\ (AfterOutput /\ pc = "render") =>
             rows' = rows /\ canvasOptions' = canvasOptions
       /\ (AfterOutput /\ pc = "frame" /\ pc' = "output"
             /\ buffer # Null /\ buffer' # Null) =>
             handedOver(buffer'[1]) = handedOver(buffer[1])]_vars

\* C4: while frames are composited, rows is the wrap of the current text,
\* computed once.
RowsAreOneWrap ==
    pc \in {"snapshot", "drawText", "commit", "restore"} =>
        rows = createTextRows(<<>>, text, width)

\* C5: when setText has returned and nothing has failed, the frame store
\* holds the frames of the source, each once and in decode order, and when
\* a render has passed all frames it has encoded as many as noOfFrames says.
StoreIsSource ==
    (faults = 0 /\ \E k \in 1..Len(history) : history[k] = "setText") =>
        /\ pc = "idle" =>
              /\ Len(extractedFrames) = Len(source)
              /\ \A k \in 1..Len(extractedFrames) :
                    /\ extractedFrames[k].delay = source[k].delay * 10
                    /\ extractedFrames[k].disposal = source[k].disposal
        /\ pc = "output" =>
              /\ Len(encoder.frames) = Len(source)
              /\ Len(encoder.frames) = numberOfFrames

\* C6: the first step of setText sets text to the argument, empties rows and
\* sets exactly the option keys passed, to the values passed; the rest of
\* the call changes none of them.
SetTextEffect ==
    [][/\ (pc = "idle" /\ pc' = "gifFrames") =>
            /\ text' = call'.text
            /\ rows' = <<>>
            /\ DOMAIN textOptions' = DOMAIN textOptions
            /\ \A key \in DOMAIN textOptions :
                  IF call'.options # <<>> /\ key \in DOMAIN call'.options[1]
                  THEN textOptions'[key] = call'.options[1][key]
                  ELSE textOptions'[key] = textOptions[key]
       /\ pc \in {"gifFrames", "extract"} =>
            UNCHANGED <<text, rows, textOptions>>]_vars

\* C6 witness: a setText with options has returned and an option set by an
\* earlier setText, absent from this call, is still in force
SetTextEffectWitness ==
    /\ pc = "idle"
    /\ call.op = "setText"
    /\ call.options # <<>>
    /\ "alignmentY" \notin DOMAIN call.options[1]
    /\ textOptions.alignmentY = "top"
    /\ textOptions.retain = TRUE
    /\ text = call.text
    /\ rows = <<>>

\* ----------------------------------------------- the anchor on its own
\* the position, alignment, offset and gap options a render can meet
Positions == {Null} \cup {<<n>> : n \in 0..MaxPosition}

AnchorOptions ==
    [alignmentX : {"left", "center", "right"},
     alignmentY : {"top", "middle", "bottom"},
     positionX : Positions, positionY : Positions,
     offsetX : 0..MaxOffset, offsetY : 0..MaxOffset, rowGap : 0..MaxRowGap]

\* the gif the renders of SpecAnchor work on: two frames, the second one
\* restoring to background
AnchorSource ==
    <<[width |-> SourceWidth, height |-> SourceHeight, delay |-> 1,
       disposal |-> 1],
      [width |-> SourceWidth, height |-> SourceHeight, delay |-> 2,
       disposal |-> 2]>>

\* the instance when setText(t, o) has returned on a new instance
InitAnchor ==
    \E t \in PipelineTexts, o \in AnchorOptions :
        /\ source = AnchorSource
        /\ text = t
        /\ rows = <<>>
        /\ textOptions = assign(DefaultTextOptions, o)
        /\ width = source[1].width
        /\ height = source[1].height
        /\ numberOfFrames = frameCount(source)
        /\ extractedFrames =
             <<extractedFrame(source, 1), extractedFrame(source, 2)>>
        /\ emitted = << <<"frameDataExtreacted", 0>>,
                        <<"extractionComplete", 0>> >>
        /\ result = resolved(<<>>)
        /\ faults = 0
        /\ i = 2
        /\ call = [op |-> "setText", text |-> t, options |-> <<o>>]
        /\ history = <<"setText">>
        /\ retained = FALSE
        /\ buffer = Null
        /\ canvasOptions = DefaultCanvasOptions
        /\ pc = "idle"
        /\ index = 0
        /\ encoder = NoEncoder
        /\ ctx = NewContext
        /\ withoutText = <<>>
        /\ requests = <<>>

\* output requests on that instance, nothing failing
NextAnchor ==
    \/ \E op \in {"toBuffer", "toFile"} : Output(op)
    \/ RenderSetup
    \/ FrameBegin
    \/ FramePaint(TRUE)
    \/ FrameSnapshot
    \/ FrameDrawText
    \/ FrameCommit
    \/ FrameRestore
    \/ RenderFinish
    \/ OutputReturn

SpecAnchor == InitAnchor /\ [][NextAnchor]_vars

\* C11: once a render has anchored the text, an explicit X position (0
\* included) is the anchor X with mode start, and an explicit Y position is
\* the anchor Y with baseline top, whatever the alignments, the offsets and
\* the number of rows.
ExplicitPositionWins ==
    encoder.started =>
        /\ textOptions.positionX # Null =>
              /\ canvasOptions.x = 2 * textOptions.positionX[1]
              /\ canvasOptions.textAlign = "start"
        /\ textOptions.positionY # Null =>
              /\ canvasOptions.y = 2 * textOptions.positionY[1]
              /\ canvasOptions.textBaseline = "top"

\* C11 witness: a render of two rows anchored at the explicit (0, 1) under
\* right and middle alignment and non-zero offsets
ExplicitPositionWinsWitness ==
    /\ encoder.started
    /\ Len(rows) = 2
    /\ textOptions.positionX = <<0>> /\ textOptions.positionY = <<1>>
    /\ textOptions.alignmentX = "right" /\ textOptions.alignmentY = "middle"
    /\ textOptions.offsetX = 1 /\ textOptions.offsetY = 1
    /\ canvasOptions.x = 0 /\ canvasOptions.y = 2

\* a render is past its set-up and has not returned
Rendering ==
    pc \in {"frame", "paint", "snapshot", "drawText", "commit", "restore",
            "output"}

IsSetRepeat(c) == c[1] = "setRepeat"

\* C12: the encoder of a render gets setRepeat once, with the configured
\* repeat as it is, and before every addFrame; the encoded gif carries that
\* value.
RepeatPassedThrough ==
    Rendering =>
        /\ SelectSeq(encoder.calls, IsSetRepeat)
             = << <<"setRepeat", textOptions.repeat>> >>
        /\ encoder.repeat = <<textOptions.repeat>>
        /\ \A j, k \in 1..Len(encoder.calls) :
              (encoder.calls[j][1] = "setRepeat"
               /\ encoder.calls[k][1] = "addFrame") => j < k
        /\ (pc = "output" /\ buffer # Null) =>
              buffer[1].repeat = <<textOptions.repeat>>

\* C12 witness: a render configured to play once has encoded two frames
RepeatPassedThroughWitness ==
    /\ pc = "output"
    /\ textOptions.repeat = -1
    /\ Len(encoder.frames) = 2
    /\ buffer # Null

hasImage(pixels) == \E k \in 1..Len(pixels) : pixels[k].kind = "image"

\* C13: a paint that throws leaves the canvas as it was and the iteration
\* goes on to the snapshot with no error raised. Every frame the loop has
\* passed is in the encoder with text drawn and its own delay and disposal;
\* the loop ends with all frames in and the encoder finished, and an output
\* request returns only from such a render.
PaintFailureContained ==
    /\ [](Rendering =>
            /\ Len(encoder.frames) =
                 IF pc = "restore" THEN index + 1 ELSE index
            /\ \A k \in 1..Len(encoder.frames) :
                  /\ hasText(encoder.frames[k].pixels)
                  /\ encoder.frames[k].delay = extractedFrames[k].delay
                  /\ encoder.frames[k].dispose = extractedFrames[k].disposal
            /\ pc = "output" =>
                  /\ index = Len(extractedFrames)
                  /\ encoder.finished = 1)
    /\ []((pc = "idle" /\ call.op \in {"toBuffer", "toFile"}) =>
            /\ encoder.finished = 1
            /\ Len(encoder.frames) = Len(extractedFrames)
            /\ result.error \in {"", "writeStreamToFile", EmptyBufferError})
    /\ [][(pc = "paint" /\ ctx'.pixels = ctx.pixels) =>
            /\ pc' = "snapshot"
            /\ UNCHANGED <<index, result, history, encoder,
                           extractedFrames>>]_vars

\* C13 witness: the paint of the first of two frames failed; the frame was
\* encoded as text on a blank canvas, the second frame with its picture
PaintFailureContainedWitness ==
    /\ pc = "output"
    /\ encoder.finished = 1
    /\ Len(encoder.frames) = 2
    /\ extractedFrames[1].imageData.kind = "Image"
    /\ ~hasImage(encoder.frames[1].pixels)
    /\ hasText(encoder.frames[1].pixels)
    /\ hasImage(encoder.frames[2].pixels)

\* C14: an output request whose render left no buffer is rejected with the
\* empty-buffer error, whichever accessor made it.
NoBufferIsAnError ==
    (pc = "idle" /\ call.op \in {"toBuffer", "toFile"} /\ buffer = Null) =>
        /\ result.status = "rejected"
        /\ result.error = EmptyBufferError

IsFinish(c) == c[1] = "finish"

\* C15: the encoder of a render is not finished while frames are worked on
\* and is finished once when the loop is over, finish being its last call,
\* after the append of every stored frame; this.buffer changes only in the
\* step that finishes the encoder; an output request starts a render with a
\* new encoder and returns only from a finished one.
FinishOnceAtEnd ==
    /\ [](Rendering =>
            /\ encoder.finished = IF pc = "output" THEN 1 ELSE 0
            /\ Len(SelectSeq(encoder.calls, IsFinish)) = encoder.finished
            /\ pc = "output" =>
                  /\ encoder.calls[Len(encoder.calls)] = <<"finish", 0>>
                  /\ Len(encoder.frames) = Len(extractedFrames)
                  /\ buffer # Null => buffer[1].frames = encoder.frames)
    /\ [][/\ buffer' # buffer =>
               (pc = "frame" /\ pc' = "output" /\ encoder.finished = 0
                /\ encoder'.finished = 1)
          /\ (pc = "idle" /\ pc' # "idle"
              /\ call'.op \in {"toBuffer", "toFile"}) => pc' = "render"
          /\ pc = "render" =>
               (encoder'.finished = 0 /\ encoder'.frames = <<>>)
          /\ (pc # "idle" /\ pc' = "idle"
              /\ call.op \in {"toBuffer", "toFile"}) =>
               (pc = "output" /\ encoder.finished = 1)]_vars

\* C15 witness: the second output request in a row has finished its own
\* encoder after two frames
FinishOnceAtEndWitness ==
    /\ pc = "output"
    /\ AfterOutput
    /\ encoder.finished = 1
    /\ Len(encoder.frames) = 2
    /\ buffer # Null

\* the frame-index signals of the first n frames, in order
indexSignals(n) == [j \in 1..n |-> <<"frameIndexUpdate", j - 1>>]

\* the number of frames the loop of a render has begun
begun ==
    IF pc = "frame" THEN index
    ELSE IF pc = "output" THEN Len(extractedFrames) ELSE index + 1

\* C16: a render over N stored frames emits the frame-index signal of
\* 0..N-1 once each and in order, the signal of a frame before the frame is
\* painted or handed to the encoder, and the finished signal once, after
\* the last frame was handed over and this.buffer assigned.
SignalsInOrder ==
    /\ [](Rendering =>
            /\ emitted = indexSignals(begun) \o
                         (IF pc = "output" THEN << <<"finished", 0>> >>
                          ELSE <<>>)
            /\ pc \in {"paint", "snapshot", "drawText", "commit"} =>
                  Len(encoder.frames) = index
            /\ pc \in {"restore", "frame"} => Len(encoder.frames) = begun
            /\ pc = "output" =>
                  /\ Len(encoder.frames) = Len(extractedFrames)
                  /\ encoder.finished = 1
                  /\ buffer # Null => buffer[1] = getData(encoder))
    /\ [][/\ (pc = "paint" \/ pc = "commit") =>
               /\ emitted # <<>>
               /\ emitted[Len(emitted)] = <<"frameIndexUpdate", index>>
          /\ (Rendering /\ emitted' # emitted /\ pc' # "output") =>
               (ctx' = ctx /\ encoder' = encoder)
          /\ (pc = "output" /\ pc' = "idle") =>
               (emitted' = emitted /\ buffer' = buffer)]_vars

\* C16 witness: a render of two frames has emitted both frame-index signals
\* and the finished signal
SignalsInOrderWitness ==
    /\ pc = "output"
    /\ Len(extractedFrames) = 2
    /\ emitted = << <<"frameIndexUpdate", 0>>, <<"frameIndexUpdate", 1>>,
                    <<"finished", 0>> >>
    /\ buffer # Null

dimensionsKnown == <<"frameDataExtreacted", 0>>

extractionComplete == <<"extractionComplete", 0>>

\* C17: an extraction emits the dimensions-known signal once, before the
\* extraction-complete signal and before it stores any frame, and at that
\* moment width, height and numberOfFrames are the source's.
DimensionsKnownFirst ==
    /\ [](/\ pc = "gifFrames" => emitted = <<>>
          /\ pc = "extract" =>
                /\ emitted = <<dimensionsKnown>>
                /\ width = source[1].width
                /\ height = source[1].height
                /\ numberOfFrames = Len(source)
          /\ (pc = "idle" /\ call.op = "setText"
              /\ result.status = "resolved") =>
                emitted = <<dimensionsKnown, extractionComplete>>)
    /\ [][/\ emitted' = Append(emitted, dimensionsKnown) =>
               /\ width' = source[1].width
               /\ height' = source[1].height
               /\ numberOfFrames' = Len(source)
               /\ extractedFrames' = extractedFrames
               /\ pc = "gifFrames"
          /\ (call.op = "setText" /\ extractedFrames' # extractedFrames) =>
               /\ emitted = <<dimensionsKnown>>
               /\ emitted' = emitted]_vars

\* C17 witness: the first frame of an extraction is stored, the
\* dimensions-known signal was emitted and the extraction is not complete
DimensionsKnownFirstWitness ==
    /\ pc = "extract"
    /\ i = 1
    /\ Len(source) = 2
    /\ extractedFrames # <<>>
    /\ emitted = <<dimensionsKnown>>
    /\ numberOfFrames = 2

\* ---------------------------------------- getWidth, getHeight, noOfFrames
Getters == {"getWidth", "getHeight", "noOfFrames"}

\* lines 425, 439 and 453: if (this.width), a number is truthy unless zero
knownMutant(v) == TRUE

known(v) == v # 0

\* lines 424-462: the getter resolves at once with a field that is set, and
\* otherwise registers a listener of "frameDataExtreacted" and stays pending
request(g, v) ==
    IF known(v)
    THEN [getter |-> g, status |-> "resolved", value |-> v, listener |-> FALSE]
    ELSE [getter |-> g, status |-> "pending", value |-> 0, listener |-> TRUE]

\* lines 424-462: a getter is called, between any two steps of setText
Getter(g) ==
    /\ Len(requests) < MaxRequests
    /\ requests' =
         Append(requests, request(g, fieldOf(g, width, height, numberOfFrames)))
    /\ UNCHANGED <<source, instanceVars, pc, call, history, result, faults, i,
                   index, encoder, ctx, withoutText, emitted>>

\* setText calls and getter calls on one instance
NextGetters ==
    \/ SetText(DefaultText, <<>>)
    \/ GifFramesOk
    \/ GifFramesFail
    \/ ExtractFrameOk
    \/ ExtractFrameFail
    \/ ExtractionComplete
    \/ \E g \in Getters : Getter(g)

SpecGetters == Init /\ [][NextGetters]_vars

\* the value extraction sets for the field a getter reads
sourceValue(g) == fieldOf(g, source[1].width, source[1].height, Len(source))

\* C18: a getter called while its field is unset stays pending until the
\* dimensions-known signal and then resolves with the value extraction set,
\* the signal leaving no request pending; a getter called while its field
\* is set resolves at once with the stored value and registers no listener;
\* a resolved request keeps its value.
GettersWait ==
    /\ [](\A k \in DOMAIN requests :
            /\ requests[k].status = "pending" =>
                  /\ fieldOf(requests[k].getter, width, height,
                             numberOfFrames) = 0
                  /\ requests[k].listener
            /\ requests[k].status = "resolved" =>
                  requests[k].value = sourceValue(requests[k].getter))
    /\ [][/\ \A k \in DOMAIN requests :
               /\ requests[k].status = "resolved" => requests'[k] = requests[k]
               /\ (requests[k].status = "pending"
                   /\ requests'[k].status = "resolved") =>
                     /\ emitted' = Append(emitted, dimensionsKnown)
                     /\ requests'[k].value =
                          fieldOf(requests[k].getter, width', height',
                                  numberOfFrames')
          /\ emitted' = Append(emitted, dimensionsKnown) =>
               \A k \in DOMAIN requests' : requests'[k].status = "resolved"
          /\ Len(requests') > Len(requests) =>
               LET r == requests'[Len(requests')]
                   v == fieldOf(r.getter, width, height, numberOfFrames)
               IN  /\ emitted' = emitted
                   /\ IF v # 0
                      THEN r.status = "resolved" /\ r.value = v /\ ~r.listener
                      ELSE r.status = "pending" /\ r.listener]_vars

\* C18 witness: a getHeight that waited for the signal and a noOfFrames
\* called after it are both resolved, before the extraction is complete
GettersWaitWitness ==
    /\ pc = "extract"
    /\ Len(source) = 2
    /\ requests =
         <<[getter |-> "getHeight", status |-> "resolved",
            value |-> SourceHeight, listener |-> TRUE],
           [getter |-> "noOfFrames", status |-> "resolved",
            value |-> 2, listener |-> FALSE]>>

\* the strokeText and fillText layers of the canvas, in drawing order
textLayers == SelectSeq(ctx.pixels, IsTextLayer)

\* a stroke that paints: strokeText with a transparent strokeStyle changes
\* no pixel of the canvas
outlined(layer) ==
    layer.kind = "strokeText" /\ layer.strokeStyle # "transparent"

\* C19: when the text of a frame is drawn, every row has a strokeText and
\* then a fillText with the same text at the same coordinates; the stroke
\* carries the configured stroke colour, so an outline is painted only if
\* that colour is not "transparent"; the fill is there for every row.
StrokeThenFill ==
    pc = "commit" =>
        /\ Len(textLayers) = 2 * Len(rows)
        /\ \A j \in 1..Len(rows) :
             LET stroke == textLayers[2 * j - 1]
                 fill == textLayers[2 * j]
             IN  /\ stroke.kind = "strokeText"
                 /\ fill.kind = "fillText"
                 /\ fill.text = stroke.text
                 /\ fill.x = stroke.x
                 /\ fill.y = stroke.y
                 /\ fill.fillStyle = textOptions.fontColor
                 /\ stroke.strokeStyle = textOptions.strokeColor
                 /\ outlined(stroke) <=> textOptions.strokeColor # "transparent"

\* C19 witness: two rows are drawn with a black outline on a frame
StrokeThenFillWitness ==
    /\ pc = "commit"
    /\ Len(rows) = 2
    /\ textOptions.strokeColor = "black"
    /\ \A k \in DOMAIN textLayers :
         textLayers[k].kind = "strokeText" => outlined(textLayers[k])
    /\ Len(textLayers) = 4

\* C19, the default: two rows are drawn and no outline is painted
StrokeThenFillNoOutline ==
    /\ pc = "commit"
    /\ Len(rows) = 2
    /\ textOptions.strokeColor = "transparent"
    /\ \A k \in DOMAIN textLayers : ~outlined(textLayers[k])
    /\ Len(textLayers) = 4

IsFill(layer) == layer.kind = "fillText"

\* the fillText layers of the canvas, in drawing order
fillLayers == SelectSeq(ctx.pixels, IsFill)

\* C20: when the text of a frame is drawn, with n rows, row j (from 0, in
\* reading order) is at x = canvasOptions.x and
\* y = canvasOptions.y - (n-1-j) * (approximateLineHeight + rowGap), its
\* content the text of that row: the last row at the anchor, the earlier
\* ones above it, the last row drawn first. Coordinates in half pixels.
RowsDrawnUpward ==
    pc = "commit" =>
        LET n == Len(rows)
            step == approximateLineHeight + textOptions.rowGap
        IN  /\ Len(fillLayers) = n
            /\ \A j \in 0..(n - 1) :
                 LET drawn == fillLayers[n - j]
                 IN  /\ drawn.text = rows[j + 1].text
                     /\ drawn.x = canvasOptions.x
                     /\ drawn.y = canvasOptions.y - 2 * ((n - 1 - j) * step)
                     /\ j < n - 1 => drawn.y < canvasOptions.y
            /\ n = 1 => fillLayers[1].text = text

\* C20 witness: the rows "a" and "b" are drawn with a row gap, "b" first and
\* at the anchor, "a" above it
RowsDrawnUpwardWitness ==
    /\ pc = "commit"
    /\ Len(rows) = 2
    /\ rows[1].text = <<"a">>
    /\ rows[2].text = <<"b">>
    /\ textOptions.rowGap = 1
    /\ Len(fillLayers) = 2
    /\ fillLayers[1].text = <<"b">>
    /\ fillLayers[1].y = canvasOptions.y
    /\ fillLayers[2].text = <<"a">>
    /\ fillLayers[2].y = canvasOptions.y - 2 * (approximateLineHeight + 1)

\* C20, one row: the text "a" is drawn at the anchor
RowsDrawnUpwardOneRow ==
    /\ pc = "commit"
    /\ Len(rows) = 1
    /\ Len(fillLayers) = 1
    /\ fillLayers[1].text = <<"a">>
    /\ fillLayers[1].y = canvasOptions.y

\* ------------------------------------------- renders on canvases of any size
\* the options of a text placed by alignment, no explicit position
AlignedOptions ==
    [alignmentX : {"left", "center", "right"},
     alignmentY : {"top", "middle", "bottom"},
     offsetX : 0..MaxOffset, offsetY : 0..MaxOffset, rowGap : 0..MaxRowGap]

\* a gif of one frame that restores to background, w by h
SizedSource(w, h) ==
    <<[width |-> w, height |-> h, delay |-> 1, disposal |-> 2]>>

\* the instance when setText(t, o) has returned on a new instance
InitSizes ==
    \E t \in PipelineTexts, o \in AlignedOptions,
       w \in 1..MaxWidth, h \in {SourceHeight - 1, SourceHeight} :
        /\ source = SizedSource(w, h)
        /\ text = t
        /\ rows = <<>>
        /\ textOptions = assign(DefaultTextOptions, o)
        /\ width = w
        /\ height = h
        /\ numberOfFrames = frameCount(source)
        /\ extractedFrames = <<extractedFrame(source, 1)>>
        /\ emitted = << <<"frameDataExtreacted", 0>>,
                        <<"extractionComplete", 0>> >>
        /\ result = resolved(<<>>)
        /\ faults = 0
        /\ i = 1
        /\ call = [op |-> "setText", text |-> t, options |-> <<o>>]
        /\ history = <<"setText">>
        /\ retained = FALSE
        /\ buffer = Null
        /\ canvasOptions = DefaultCanvasOptions
        /\ pc = "idle"
        /\ index = 0
        /\ encoder = NoEncoder
        /\ ctx = NewContext
        /\ withoutText = <<>>
        /\ requests = <<>>

\* toBuffer calls on that instance, nothing failing
NextSizes ==
    \/ Output("toBuffer")
    \/ RenderSetup
    \/ FrameBegin
    \/ FramePaint(TRUE)
    \/ FrameSnapshot
    \/ FrameDrawText
    \/ FrameCommit
    \/ FrameRestore
    \/ RenderFinish
    \/ OutputReturn

SpecSizes == InitSizes /\ [][NextSizes]_vars

\* the reference anchor of a text placed by alignment, in half pixels:
\* twice the x, the text alignment mode
tableX(alignment, offset, canvasWidth) ==
    CASE alignment = "right" -> <<2 * canvasWidth - 2 * offset, "right">>
      [] alignment = "left" -> <<2 * offset, "left">>
      [] alignment = "center" -> <<canvasWidth, "center">>

\* twice the y and the baseline mode, for rowCount rows
tableY(alignment, offset, gap, canvasHeight, rowCount, lineHeight) ==
    LET blockHeight == rowCount * lineHeight + (rowCount - 1) * gap
        above == (rowCount - 1) * (lineHeight + gap)
    IN  CASE alignment = "top" -> <<2 * offset, "hanging">>
          [] alignment = "middle" /\ rowCount = 1 -> <<canvasHeight, "middle">>
          [] alignment = "middle" /\ rowCount # 1 ->
                <<canvasHeight - blockHeight, "top">>
          [] alignment = "bottom" /\ rowCount = 1 ->
                <<2 * canvasHeight - 2 * offset, "bottom">>
          [] alignment = "bottom" /\ rowCount # 1 ->
                <<2 * canvasHeight - 2 * (above + offset), "bottom">>

\* C21: with no explicit position, the anchor a render works with is the
\* one of the reference table for the alignment, offsets, row gap, canvas
\* size and number of rows of that render, whatever earlier renders left
\* in canvasOptions.
AnchorMatchesTable ==
    Rendering =>
        /\ textOptions.positionX = Null =>
              <<canvasOptions.x, canvasOptions.textAlign>> =
                 tableX(textOptions.alignmentX, textOptions.offsetX, width)
        /\ textOptions.positionY = Null =>
              <<canvasOptions.y, canvasOptions.textBaseline>> =
                 tableY(textOptions.alignmentY, textOptions.offsetY,
                        textOptions.rowGap, height, Len(rows),
                        approximateLineHeight)

\* C21 witness: the second render of an instance, on a canvas of odd
\* height, anchors two rows by the middle, half a pixel off a whole one
AnchorMatchesTableWitness ==
    /\ pc = "commit"
    /\ history = <<"setText", "toBuffer">>
    /\ textOptions.positionX = Null
    /\ textOptions.positionY = Null
    /\ textOptions.alignmentX = "right"
    /\ textOptions.alignmentY = "middle"
    /\ textOptions.rowGap = 1
    /\ height = SourceHeight - 1
    /\ Len(rows) = 2
    /\ canvasOptions.y = height - (2 * approximateLineHeight + 1)
    /\ canvasOptions.textBaseline = "top"

\* C21, several rows by the bottom
AnchorMatchesTableBottom ==
    /\ pc = "commit"
    /\ textOptions.positionY = Null
    /\ textOptions.alignmentY = "bottom"
    /\ textOptions.offsetY = 1
    /\ Len(rows) = 2
    /\ canvasOptions.y =
         2 * (height - (approximateLineHeight + textOptions.rowGap + 1))

\* a step of a render, from the entry of #renderGIF to its return
InRender == pc = "render" \/ Rendering

\* C22: a step of a render leaves the number of stored frames and the delay
\* and disposal of each as they are; with retain false it leaves the whole
\* store as it is; with retain true it changes at most the pixels of the
\* frame the loop is at.
RenderKeepsStore ==
    [][InRender =>
         /\ Len(extractedFrames') = Len(extractedFrames)
         /\ \A k \in DOMAIN extractedFrames :
              /\ extractedFrames'[k].delay = extractedFrames[k].delay
              /\ extractedFrames'[k].disposal = extractedFrames[k].disposal
              /\ k # index + 1 => extractedFrames'[k] = extractedFrames[k]
         /\ ~textOptions.retain => extractedFrames' = extractedFrames]_vars

\* C22 witness: a render without retain has composited text onto both frames
\* of the store and the store still holds the decoded images
RenderKeepsStoreWitness ==
    /\ pc = "output"
    /\ ~textOptions.retain
    /\ buffer # Null
    /\ Len(extractedFrames) = 2
    /\ Len(encoder.frames) = 2
    /\ \A k \in 1..2 :
         /\ hasText(encoder.frames[k].pixels)
         /\ extractedFrames[k] = extractedFrame(source, k)

\* C22, retain: a render with retain has replaced the pixels of both stored
\* frames by the composited ones and kept their delay and disposal
RenderKeepsStoreRetain ==
    /\ pc = "output"
    /\ textOptions.retain
    /\ Len(extractedFrames) = 2
    /\ \A k \in 1..2 :
         /\ extractedFrames[k].imageData.kind = "ImageData"
         /\ hasText(extractedFrames[k].imageData.pixels)
         /\ extractedFrames[k].delay = extractedFrame(source, k).delay
         /\ extractedFrames[k].disposal = extractedFrame(source, k).disposal

IsAddFrame(c) == c[1] = "addFrame"

\* C23: the total the encoder of a render was made with is the number of
\* frames in the store, no more frames than that are appended to it, and
\* when it is finished exactly that many were, each by one addFrame call,
\* whatever calls came before and whatever failed.
TotalIsAppended ==
    Rendering =>
        /\ encoder.totalFrames = Len(extractedFrames)
        /\ Len(encoder.frames) <= encoder.totalFrames
        /\ Len(SelectSeq(encoder.calls, IsAddFrame)) = Len(encoder.frames)
        /\ encoder.finished = 1 => Len(encoder.frames) = encoder.totalFrames
        /\ pc = "output" => encoder.finished = 1

\* C23 witness: one of two frames failed to extract, and the render told
\* its encoder of one frame and appended one
TotalIsAppendedWitness ==
    /\ pc = "output"
    /\ faults = 1
    /\ Len(source) = 2
    /\ history = <<"setText">>
    /\ encoder.finished = 1
    /\ encoder.totalFrames = 1
    /\ Len(encoder.frames) = 1

\* C23, after two setText calls: the store holds the two source frames
\* twice, the encoder was told of four frames and got four
TotalIsAppendedTwice ==
    /\ pc = "output"
    /\ Len(source) = 2
    /\ history = <<"setText", "setText">>
    /\ encoder.totalFrames = 4
    /\ Len(encoder.frames) = 4

\* C23, a paint that failed: the frame is appended all the same
TotalIsAppendedUnpainted ==
    /\ pc = "output"
    /\ Len(extractedFrames) = Len(source)
    /\ \E k \in DOMAIN encoder.frames : ~hasImage(encoder.frames[k].pixels)
    /\ Len(encoder.frames) = encoder.totalFrames
    /\ encoder.totalFrames > 0

====
